---- MODULE Spec2Model ----
(***************************************************************************)
(* A model of the feishu-etl pipeline: paged extraction from a source      *)
(* table, the row transform, deduplication against the target table and    *)
(* batched writes through the retrying HTTP transport.                     *)
(*                                                                         *)
(* Text is modelled as a sequence of characters (one-character strings;    *)
(* a CJK character of the source is written as its pinyin syllable, e.g.   *)
(* "kong" "shu" "ju" for the empty-data sentinel).  Field keys are the     *)
(* ASCII names listed at FieldKeys.  A number n is the pair <<q, r>> with  *)
(* n = 1000 * q + r and 0 <= r < 1000, so that millisecond timestamps fit. *)
(***************************************************************************)
EXTENDS Integers, Sequences, FiniteSets, TLC

(***************************************************************************)
(* Text                                                                    *)
(***************************************************************************)
Digits == <<"0", "1", "2", "3", "4", "5", "6", "7", "8", "9">>

IsDigit(c) == \E i \in 1..10 : Digits[i] = c

DigitVal(c) == (CHOOSE i \in 1..10 : Digits[i] = c) - 1

UpperChars == <<"A", "B", "C", "D", "E", "F", "G", "H", "I", "J", "K", "L", "M",
                "N", "O", "P", "Q", "R", "S", "T", "U", "V", "W", "X", "Y", "Z">>

LowerChars == <<"a", "b", "c", "d", "e", "f", "g", "h", "i", "j", "k", "l", "m",
                "n", "o", "p", "q", "r", "s", "t", "u", "v", "w", "x", "y", "z">>

\* strings.ToLower, character by character
ToLowerChar(c) ==
    IF \E i \in 1..26 : UpperChars[i] = c
    THEN LowerChars[CHOOSE i \in 1..26 : UpperChars[i] = c]
    ELSE c

ToLower(s) == [i \in 1..Len(s) |-> ToLowerChar(s[i])]

\* strings.Contains
Contains(s, sub) ==
    \E i \in 0..(Len(s) - Len(sub)) : SubSeq(s, i + 1, i + Len(sub)) = sub

containsIgnoreCase(s, substr) == Contains(ToLower(s), ToLower(substr))

RECURSIVE Concat(_)
\* the concatenation of a sequence of sequences
Concat(ss) == IF ss = <<>> THEN <<>> ELSE Head(ss) \o Concat(Tail(ss))

RECURSIVE NatChars(_)
\* the decimal digits of a natural number
NatChars(n) == IF n < 10 THEN <<Digits[n + 1]>>
               ELSE NatChars(n \div 10) \o <<Digits[(n % 10) + 1]>>

RECURSIVE PadLeft(_, _)
\* zero padding to a minimum width, as Go's appendInt(b, x, width)
PadLeft(s, width) == IF Len(s) >= width THEN s ELSE PadLeft(<<"0">> \o s, width)

RECURSIVE DigitsVal(_)
\* the value of a sequence of decimal digits
DigitsVal(s) == IF s = <<>> THEN 0
                ELSE 10 * DigitsVal(SubSeq(s, 1, Len(s) - 1)) + DigitVal(s[Len(s)])

AllDigits(s) == \A i \in 1..Len(s) : IsDigit(s[i])

(***************************************************************************)
(* Dynamic values of a field map (interface{} after JSON decoding)         *)
(***************************************************************************)
Str(s)  == [t |-> "str", v |-> s]
Num(n)  == [t |-> "num", v |-> n]
Nil     == [t |-> "nil", v |-> <<>>]
\* a composite object {"value": [{"text": ...}, ...]}, v the texts in order
Obj(ts) == [t |-> "obj", v |-> ts]
\* a float64 that is no timestamp: an hour count, v = <<sign, tenths>>,
\* and the two special values ParseFloat can return
Flt(sign, tenths) == [t |-> "flt", v |-> <<sign, tenths>>]
NaN     == [t |-> "nan", v |-> <<>>]
Inf(sign) == [t |-> "inf", v |-> <<sign>>]

Has(fields, key) == key \in DOMAIN fields

(***************************************************************************)
(* Numbers <<q, r>> = 1000 q + r                                           *)
(***************************************************************************)
NumOf(n) == <<n \div 1000, n % 1000>>

NumLT(a, b) == a[1] < b[1] \/ (a[1] = b[1] /\ a[2] < b[2])

NumGE(a, b) == ~NumLT(a, b)

NumGT(a, b) == NumLT(b, a)

\* n seconds as milliseconds
MsOfSec(n) == <<n, 0>>

(***************************************************************************)
(* Calendar                                                                *)
(***************************************************************************)
SecondsPerDay == 24 * 60 * 60

\* time.FixedZone("UTC+8", 8*60*60), which is also Asia/Shanghai since 2000
ShanghaiOffset == 8 * 60 * 60

\* Days since 1970-01-01 of the instant of n seconds after the epoch as seen
\* at the given zone offset; n a number pair, so that a millisecond value
\* misread as seconds is still placed on the calendar.
DayOfSeconds(n, offset) ==
    LET r == n[2] + offset
        q == n[1] + (r \div 1000)
        rr == r % 1000
    IN  10 * (q \div 864) + ((1000 * (q % 864) + rr) \div SecondsPerDay)

\* The civil date <<year, month, day>> of a day number.
CivilFromDays(days) ==
    LET z   == days + 719468
        era == z \div 146097
        doe == z - era * 146097
        yoe == (doe - (doe \div 1460) + (doe \div 36524) - (doe \div 146096)) \div 365
        doy == doe - (365 * yoe + (yoe \div 4) - (yoe \div 100))
        mp  == (5 * doy + 2) \div 153
        d   == doy - ((153 * mp + 2) \div 5) + 1
        m   == IF mp < 10 THEN mp + 3 ELSE mp - 9
        y   == yoe + era * 400 + (IF m <= 2 THEN 1 ELSE 0)
    IN  <<y, m, d>>

\* The day number of a civil date.
DaysFromCivil(y, m, d) ==
    LET yy  == IF m <= 2 THEN y - 1 ELSE y
        era == yy \div 400
        yoe == yy - era * 400
        mp  == IF m > 2 THEN m - 3 ELSE m + 9
        doy == ((153 * mp + 2) \div 5) + d - 1
        doe == yoe * 365 + (yoe \div 4) - (yoe \div 100) + doy
    IN  era * 146097 + doe - 719468

IsLeap(y) == (y % 4 = 0 /\ y % 100 # 0) \/ y % 400 = 0

DaysIn(y, m) ==
    IF m = 2 THEN (IF IsLeap(y) THEN 29 ELSE 28)
    ELSE IF m \in {4, 6, 9, 11} THEN 30 ELSE 31

\* t.Format("2006-01-02") of a day number: the year at least four digits
\* wide, month and day two digits.
FormatDay(days) ==
    LET c == CivilFromDays(days)
    IN  PadLeft(NatChars(c[1]), 4) \o <<"-">> \o PadLeft(NatChars(c[2]), 2)
            \o <<"-">> \o PadLeft(NatChars(c[3]), 2)

\* time.Parse("2006-01-02", s): ok with the day number, or not ok.  The
\* layout takes exactly four year digits, two month digits, two day digits.
ParseDay(s) ==
    IF /\ Len(s) = 10
       /\ s[5] = "-" /\ s[8] = "-"
       /\ AllDigits(SubSeq(s, 1, 4)) /\ AllDigits(SubSeq(s, 6, 7))
       /\ AllDigits(SubSeq(s, 9, 10))
    THEN LET y == DigitsVal(SubSeq(s, 1, 4))
             m == DigitsVal(SubSeq(s, 6, 7))
             d == DigitsVal(SubSeq(s, 9, 10))
         IN  IF m \in 1..12 /\ d >= 1 /\ d <= DaysIn(y, m)
             THEN [ok |-> TRUE, day |-> DaysFromCivil(y, m, d)]
             ELSE [ok |-> FALSE, day |-> 0]
    ELSE [ok |-> FALSE, day |-> 0]

(***************************************************************************)
(* util/date.go, util/string.go                                            *)
(***************************************************************************)
minValidTimestampSec == 946684800

maxValidTimestampSec == 2145916800

\* maxValidTimestampSec * 1000
maxValidTimestampMs == MsOfSec(maxValidTimestampSec)

\* 1000000000000
timestampThresholdMs == <<1000000000, 0>>

\* The field keys of the data contract (the source's labels in comments):
\*   "status" gong-zuo-zhuang-tai, "dept" bu-men, "name" xing-ming,
\*   "worklog" gong-zuo-ri-zhi, "notes" wen-ti-yu-gou-tong, "check" jian-cha,
\*   "pname1".."pname3" xiang-mu-ming-cheng-1..3,
\*   "phour1".."phour3" xiang-mu-gong-shi-1..3,
\*   "project" xiang-mu-ming-cheng, "hours" gong-shi; DateField is cfg.DateField.
DateField == "date"

FieldKeys == {"status", "dept", "name", "worklog", "notes", "check", DateField,
              "pname1", "phour1", "pname2", "phour2", "pname3", "phour3",
              "project", "hours"}

GetStringField(fields, key) ==
    IF Has(fields, key) /\ fields[key].t = "str" THEN fields[key].v ELSE <<>>

\* ok with the instant in seconds after the epoch (a number pair), or not ok.
\* The range test is made on the raw value, before the unit is decided.
convertTimestampToTime(ts) ==
    IF NumLT(ts, NumOf(minValidTimestampSec)) \/ NumGT(ts, maxValidTimestampMs)
    THEN [ok |-> FALSE, sec |-> <<0, 0>>]
    ELSE IF NumGE(ts, timestampThresholdMs)
         THEN [ok |-> TRUE, sec |-> NumOf(ts[1])]
         ELSE [ok |-> TRUE, sec |-> ts]

\* ok with the text (empty when the field is absent), or not ok.  A number
\* is formatted in the host's local zone, tz seconds east of UTC.
GetDateFieldAsString(fields, key, tz) ==
    IF ~Has(fields, key) THEN [ok |-> TRUE, s |-> <<>>]
    ELSE IF fields[key].t = "str" THEN [ok |-> TRUE, s |-> fields[key].v]
    ELSE IF fields[key].t = "num"
         THEN LET t == convertTimestampToTime(fields[key].v)
              IN  IF t.ok THEN [ok |-> TRUE, s |-> FormatDay(DayOfSeconds(t.sec, tz))]
                  ELSE [ok |-> FALSE, s |-> <<>>]
    ELSE [ok |-> FALSE, s |-> <<>>]

\* ok with the milliseconds of the date's midnight in Asia/Shanghai, or not ok.
\* The int64 result holds every four-digit year; the number pair holds
\* seconds up to 2147483647, so a later midnight is given as that value,
\* which like every value above maxValidTimestampMs is only ever rejected.
ParseDateToTimestampMs(dateStr) ==
    IF dateStr = <<>> THEN [ok |-> FALSE, ms |-> <<0, 0>>]
    ELSE LET p == ParseDay(dateStr)
         IN  IF p.ok
             THEN [ok |-> TRUE,
                   ms |-> IF p.day > 2147483647 \div SecondsPerDay
                          THEN MsOfSec(2147483647)
                          ELSE MsOfSec(p.day * SecondsPerDay - ShanghaiOffset)]
             ELSE [ok |-> FALSE, ms |-> <<0, 0>>]

\* the first day number whose UTC midnight is not before the instant t
DayNotBefore(t) == (t + SecondsPerDay - 1) \div SecondsPerDay

\* One record of FilterRecordsByDate: kept when the date text parses and its
\* UTC midnight lies in [startTime, endTime), both instants in seconds:
\* day * SecondsPerDay >= startTime and day * SecondsPerDay < endTime, told
\* in whole days so that a day of a far year needs no wide product.
InDateWindow(r, startTime, endTime, tz) ==
    LET g == GetDateFieldAsString(r.fields, DateField, tz)
        p == ParseDay(g.s)
    IN  /\ g.ok /\ g.s # <<>> /\ p.ok
        /\ p.day >= DayNotBefore(startTime)
        /\ p.day < DayNotBefore(endTime)

FilterRecordsByDate(records, startTime, endTime, tz) ==
    SelectSeq(records, LAMBDA r : InDateWindow(r, startTime, endTime, tz))

(***************************************************************************)
(* etl/transform.go                                                        *)
(***************************************************************************)
EmptyDataMark == <<"kong", "shu", "ju">>

DuplicateMark == <<"chong", "fu", "tian", "xie">>

NilText == <<"<", "n", "i", "l", ">">>

\* fmt.Sprintf("%v", v) for the values a check field can hold
SprintV(val) ==
    IF val.t = "str" THEN val.v
    ELSE IF val.t = "nil" THEN NilText
    ELSE IF val.t = "num" THEN NatChars(1000 * val.v[1] + val.v[2])
    ELSE <<"m", "a", "p", "[", "]">>

extractTextFromField(val) ==
    IF val.t = "str" THEN val.v
    ELSE IF val.t = "obj" THEN Concat(val.v)
    ELSE SprintV(val)

\* a skip test that knows the duplicate mark only
shouldSkipRecordDuplicateOnly(fields) ==
    IF ~Has(fields, "check") THEN ""
    ELSE IF fields["check"].t = "nil" THEN ""
    ELSE IF containsIgnoreCase(SprintV(fields["check"]), DuplicateMark) THEN "duplicate"
    ELSE ""

\* "" not skipped, else the reason: "empty" or "duplicate"
shouldSkipRecord(fields) ==
    IF ~Has(fields, "check") THEN ""
    ELSE IF fields["check"].t = "nil" THEN ""
    ELSE LET check == SprintV(fields["check"])
         IN  IF check # <<>> /\ containsIgnoreCase(check, EmptyDataMark) THEN "empty"
             ELSE IF check # <<>> /\ containsIgnoreCase(check, DuplicateMark)
                  THEN "duplicate"
             ELSE ""

\* strconv.ParseFloat(s, 64) for a sign, decimal digits and at most one
\* point, and for the special values; any other text is reported as an error.
\* v is Flt(sign, tenths) (a longer fraction is cut to tenths), NaN or Inf.
ParseFloat(s) ==
    LET signed == Len(s) > 0 /\ s[1] \in {"+", "-"}
        sign   == IF Len(s) > 0 /\ s[1] = "-" THEN -1 ELSE 1
        body   == IF signed THEN Tail(s) ELSE s
        low    == ToLower(body)
        dots   == {i \in 1..Len(body) : body[i] = "."}
        dot    == IF dots = {} THEN Len(body) + 1 ELSE CHOOSE i \in dots : TRUE
        ip     == SubSeq(body, 1, dot - 1)
        fp     == SubSeq(body, dot + 1, Len(body))
    IN  IF low \in {<<"i", "n", "f">>, <<"i", "n", "f", "i", "n", "i", "t", "y">>}
        THEN [ok |-> TRUE, v |-> Inf(sign), zero |-> FALSE]
        ELSE IF ~signed /\ low = <<"n", "a", "n">>
        THEN [ok |-> TRUE, v |-> NaN, zero |-> FALSE]
        ELSE IF /\ Cardinality(dots) <= 1
                /\ AllDigits(ip) /\ AllDigits(fp)
                /\ Len(ip) + Len(fp) > 0
        THEN [ok |-> TRUE,
              v |-> Flt(sign, 10 * DigitsVal(ip)
                              + (IF fp = <<>> THEN 0 ELSE DigitVal(fp[1]))),
              zero |-> \A i \in 1..Len(body) : body[i] \in {"0", "."}]
        ELSE [ok |-> FALSE, v |-> Flt(1, 0), zero |-> FALSE]

NoneText == <<"N", "o", "n", "e">>

\* a slot that gives a row for zero hours too
SlotRowsKeepZero(base, pname, phour) ==
    IF pname = <<>> \/ phour = <<>> \/ pname = NoneText \/ phour = NoneText
    THEN <<>>
    ELSE LET h == ParseFloat(phour)
         IN  IF ~h.ok THEN <<>>
             ELSE << [k \in DOMAIN base \cup {"project", "hours"} |->
                        IF k = "project" THEN Str(pname)
                        ELSE IF k = "hours" THEN h.v
                        ELSE base[k]] >>

\* the rows of one project slot: none or one
SlotRows(base, pname, phour) ==
    IF pname = <<>> \/ phour = <<>> \/ pname = NoneText \/ phour = NoneText
    THEN <<>>
    ELSE LET h == ParseFloat(phour)
         IN  IF ~h.ok \/ h.zero THEN <<>>
             ELSE << [k \in DOMAIN base \cup {"project", "hours"} |->
                        IF k = "project" THEN Str(pname)
                        ELSE IF k = "hours" THEN h.v
                        ELSE base[k]] >>

\* One record of Transform: its rows and the skip counter it increments
\* ("" none, "duplicate", "empty", "other").
TransformRecord(r, tz) ==
    LET fields == r.fields
        skip   == shouldSkipRecord(fields)
        g      == GetDateFieldAsString(fields, DateField, tz)
        base   == [k \in {"status", DateField, "dept", "name", "worklog", "notes"} |->
                     IF k = DateField THEN Str(g.s)
                     ELSE Str(GetStringField(fields, k))]
    IN  IF skip # "" THEN [rows |-> <<>>, skip |-> skip]
        ELSE IF ~g.ok \/ g.s = <<>> THEN [rows |-> <<>>, skip |-> "other"]
        ELSE [rows |->
                SlotRows(base, GetStringField(fields, "pname1"),
                         GetStringField(fields, "phour1"))
                \o SlotRows(base, GetStringField(fields, "pname2"),
                            GetStringField(fields, "phour2"))
                \o SlotRows(base, GetStringField(fields, "pname3"),
                            GetStringField(fields, "phour3")),
              skip |-> ""]

RECURSIVE Transform(_, _)
\* the rows of all records, in record order then slot order
Transform(records, tz) ==
    IF records = <<>> THEN <<>>
    ELSE TransformRecord(Head(records), tz).rows \o Transform(Tail(records), tz)

\* the skip counters of Transform: how many records took the given reason
SkipCount(records, tz, reason) ==
    Cardinality({i \in 1..Len(records) : TransformRecord(records[i], tz).skip = reason})

(***************************************************************************)
(* Load: dedup keys and record preparation                                 *)
(***************************************************************************)
\* fmt.Sprintf("%s|%s|%s", dateStr, name, project)
DedupKey(dateStr, name, project) ==
    dateStr \o <<"|">> \o name \o <<"|">> \o project

\* the key of a transformed row, Load lines 24-27
RowKey(row) == DedupKey(row[DateField].v, row["name"].v, row["project"].v)

\* whether a target record contributes a key, getTargetKeys lines 134-151
HasTargetKey(r, tz) ==
    LET g == GetDateFieldAsString(r.fields, DateField, tz)
    IN  /\ g.ok /\ g.s # <<>>
        /\ GetStringField(r.fields, "name") # <<>>
        /\ GetStringField(r.fields, "project") # <<>>

TargetKeyOf(r, tz) ==
    DedupKey(GetDateFieldAsString(r.fields, DateField, tz).s,
             GetStringField(r.fields, "name"),
             GetStringField(r.fields, "project"))

\* the key set built from the (already window-filtered) target records
TargetKeys(trecords, tz) ==
    {TargetKeyOf(trecords[i], tz) : i \in {j \in 1..Len(trecords) : HasTargetKey(trecords[j], tz)}}

\* a dedup test that compares keys without regard to letter case
IsNewRowFoldCase(row, keys) == ToLower(RowKey(row)) \notin {ToLower(k) : k \in keys}

\* the dedup test of Load line 29
IsNewRow(row, keys) == RowKey(row) \notin keys

\* the rows Load keeps for writing, lines 22-32
SelectNew(rows, keys) == SelectSeq(rows, LAMBDA row : IsNewRow(row, keys))

\* ok with the row whose date text is replaced by epoch milliseconds, or not ok
prepareRecordForWriting(row) ==
    LET p == ParseDateToTimestampMs(row[DateField].v)
    IN  IF row[DateField].t = "str" /\ p.ok
        THEN [ok |-> TRUE,
              rec |-> [k \in DOMAIN row |-> IF k = DateField THEN Num(p.ms) ELSE row[k]]]
        ELSE [ok |-> FALSE, rec |-> row]

\* a preparation that keeps every row of the batch
ConvertibleKeepAll(batch) == batch

\* the rows of a batch whose preparation succeeds, Load lines 69-77
Convertible(batch) == SelectSeq(batch, LAMBDA row : prepareRecordForWriting(row).ok)

PreparedBatch(batch) ==
    LET c == Convertible(batch)
    IN  [i \in 1..Len(c) |-> prepareRecordForWriting(c[i]).rec]

\* a batch end that stops one row short of a full batch
BatchEndShort(i, batchSize, total) ==
    IF i + batchSize > total THEN total ELSE i + batchSize - 1

\* the end index of the batch that starts after index i, Load lines 62-65
BatchEnd(i, batchSize, total) ==
    IF i + batchSize > total THEN total ELSE i + batchSize

\* json.Marshal refuses NaN and the infinities, BatchCreateRecords line 160
Marshals(rows) == \A i \in 1..Len(rows) : rows[i]["hours"].t \notin {"nan", "inf"}

(***************************************************************************)
(* The remote service, as the client sees it                               *)
(***************************************************************************)
\* the page_size the call sites pass (500), scaled to the model's tables
PageLimit == 2

NoToken == <<>>

\* the continuation token the service hands out for a position in the table
TokenOf(offset) == NatChars(offset)

OffsetOf(token) == IF token = NoToken THEN 0 ELSE DigitsVal(token)

Min(a, b) == IF a < b THEN a ELSE b

\* the page the service answers a list request with: items and next token
ServerPage(table, token) ==
    LET from == OffsetOf(token)
        to   == Min(from + PageLimit, Len(table))
    IN  [items |-> SubSeq(table, from + 1, to),
         token |-> IF to < Len(table) THEN TokenOf(to) ELSE NoToken]

\* a service that stores no row the table already holds
StoredSkipPresent(table, rows) ==
    LET fresh == SelectSeq(rows, LAMBDA r : \A i \in 1..Len(table) : table[i].fields # r)
    IN  table \o [i \in 1..Len(fresh) |->
                    [id |-> <<"t">> \o NatChars(Len(table) + i), fields |-> fresh[i]]]

\* the records the service stores for a batch-create body
Stored(table, rows) ==
    table \o [i \in 1..Len(rows) |->
                [id |-> <<"t">> \o NatChars(Len(table) + i), fields |-> rows[i]]]

\* One HTTP exchange as httpClient.Do reports it: a transport error or a
\* status with a body kind; reads: the request body was read from its
\* buffer; commit: the service stored the records of the body.
Exchange(err, status, body, reads, commit) ==
    [err |-> err, status |-> status, body |-> body, reads |-> reads, commit |-> commit]

OutcomesGet ==
    { Exchange("refused", 0, "", FALSE, FALSE),
      Exchange("timeout", 0, "", FALSE, FALSE),
      Exchange("", 429, "", FALSE, FALSE),
      Exchange("", 500, "", FALSE, FALSE),
      Exchange("", 200, "page", FALSE, FALSE),
      Exchange("", 200, "badjson", FALSE, FALSE),
      Exchange("", 200, "code", FALSE, FALSE) }

\* a POST whose body buffer is still unread
OutcomesPost ==
    { Exchange("refused", 0, "", FALSE, FALSE),
      Exchange("timeout", 0, "", TRUE, FALSE),
      Exchange("timeout", 0, "", TRUE, TRUE),
      Exchange("", 429, "", TRUE, FALSE),
      Exchange("", 500, "", TRUE, FALSE),
      Exchange("", 500, "", TRUE, TRUE),
      Exchange("", 200, "created", TRUE, TRUE),
      Exchange("", 200, "badjson", TRUE, FALSE),
      Exchange("", 200, "code", TRUE, FALSE) }

\* a POST whose body buffer an earlier attempt has drained: the transport
\* finds ContentLength and body length at odds, or cannot connect at all
OutcomesDrained ==
    { Exchange("refused", 0, "", FALSE, FALSE),
      Exchange("bodylength", 0, "", FALSE, FALSE) }

\* outcomes as if every attempt of a POST found its body buffer unread
OutcomesBodyRewound(request, drained) ==
    IF request.method = "GET" THEN OutcomesGet ELSE OutcomesPost

Outcomes(request, drained) ==
    IF request.method = "GET" THEN OutcomesGet
    ELSE IF drained THEN OutcomesDrained
    ELSE OutcomesPost

(***************************************************************************)
(* sendWithRetry                                                           *)
(***************************************************************************)
\* the attempts the two call sites of the pipeline allow
ListMaxRetries == 3

CreateMaxRetries == 3

\* a success test that looks at the transport error only
IsSuccessAnyStatus(o) == o.err = ""

\* line 221: err == nil && resp.StatusCode == http.StatusOK
IsSuccess(o) == o.err = "" /\ o.status = 200

\* line 229: i == maxRetries-1
IsLastAttempt(i, maxRetries) == i = maxRetries - 1

\* line 218, in seconds
InitialBackoff == 1

\* a back-off that grows by one second instead of doubling
NextBackoffLinear(backoff) == backoff + 1

\* line 237
NextBackoff(backoff) == backoff * 2

\* an error that always reports the status code
RetryErrorStatusOnly(o) == [kind |-> "status", err |-> "", status |-> o.status]

\* lines 230-233: the error carries the transport error when there is one,
\* else the status code
RetryError(o) ==
    IF o.err # "" THEN [kind |-> "transport", err |-> o.err, status |-> 0]
    ELSE [kind |-> "status", err |-> "", status |-> o.status]

NoError == [kind |-> "", err |-> "", status |-> 0]

(***************************************************************************)
(* Bounds and the inputs of the model                                      *)
(***************************************************************************)
\* pipeline runs in a row against the same tables
MaxRuns == 2

\* the largest maxRetries tried on sendWithRetry alone
MaxAttempts == 4

\* the largest cfg.BatchSize
MaxBatch == 2

\* the longest source table
MaxSrc == 4

\* cfg.Days of the incremental mode
WindowDays == 1

D20240102 == <<"2", "0", "2", "4", "-", "0", "1", "-", "0", "2">>

D20240103 == <<"2", "0", "2", "4", "-", "0", "1", "-", "0", "3">>

D20010101 == <<"2", "0", "0", "1", "-", "0", "1", "-", "0", "1">>

\* source records: a check-marked duplicate, an unparseable date, the
\* three-slot example, a millisecond date with two projects, a date before
\* 2001-09-09, and a record without a name
RecC == [id |-> <<"c">>,
         fields |-> [check |-> Obj(<< <<"x">>, DuplicateMark >>), date |-> Str(D20240102),
                     name |-> Str(<<"B">>), pname1 |-> Str(<<"P">>), phour1 |-> Str(<<"1">>)]]

RecF == [id |-> <<"f">>,
         fields |-> [date |-> Str(<<"b", "a", "d">>), name |-> Str(<<"B">>),
                     pname1 |-> Str(<<"P">>), phour1 |-> Str(<<"1">>)]]

RecA == [id |-> <<"a">>,
         fields |-> [date |-> Str(D20240102), name |-> Str(<<"A">>), check |-> Nil,
                     status |-> Str(<<"o", "k">>),
                     pname1 |-> Str(<<"P">>), phour1 |-> Str(<<"3">>),
                     pname2 |-> Str(<<>>), phour2 |-> Str(<<>>),
                     pname3 |-> Str(<<"Q">>), phour3 |-> Str(<<"0">>)]]

\* 1704124800000 ms = 2024-01-02T00:00:00+08:00
RecB == [id |-> <<"b">>,
         fields |-> [date |-> Num(<<1704124800, 0>>), name |-> Str(<<"A">>),
                     pname1 |-> Str(<<"p">>), phour1 |-> Str(<<"2">>),
                     pname2 |-> Str(<<"Q">>), phour2 |-> Str(<<"1", ".", "5">>)]]

RecD == [id |-> <<"d">>,
         fields |-> [date |-> Str(D20010101), name |-> Str(<<"B">>),
                     pname1 |-> Str(<<"P">>), phour1 |-> Str(<<"1">>)]]

RecE == [id |-> <<"e">>,
         fields |-> [date |-> Str(D20240103),
                     pname1 |-> Str(<<"P">>), phour1 |-> Str(<<"2">>)]]

\* a second record of the day and name of RecA that names project P in two
\* slots
RecG == [id |-> <<"g">>,
         fields |-> [date |-> Str(D20240102), name |-> Str(<<"A">>),
                     pname1 |-> Str(<<"P">>), phour1 |-> Str(<<"1">>),
                     pname2 |-> Str(<<"P">>), phour2 |-> Str(<<"2">>)]]

RecordPool == <<RecC, RecF, RecA, RecB, RecD, RecE>>

\* the source tables: the runs of at most MaxSrc consecutive pool records, and
\* two tables whose rows repeat a key
SourceTables ==
    {SubSeq(RecordPool, i, Min(i + n - 1, Len(RecordPool))) :
        i \in 1..Len(RecordPool), n \in 0..MaxSrc}
    \cup {<<RecG>>, <<RecA, RecG>>}

\* the target before the first run: empty, or holding the row of RecA as an
\* earlier run stored it
TargetTables ==
    {<<>>,
     Stored(<<>>, PreparedBatch(Transform(<<RecA>>, ShanghaiOffset)))}

\* the host's local zone: UTC or UTC+8
HostZones == {0, ShanghaiOffset}

\* 2024-01-03T00:00:00Z and ten hours later
ClockInstants == <<1704240000, 1704276000>>

Configs ==
    [Mode : {"full", "incremental"}, Days : {WindowDays},
     BatchSize : 1..MaxBatch, DryRun : BOOLEAN]

(***************************************************************************)
(* State                                                                   *)
(***************************************************************************)
VARIABLES
    source,           \* the source table of the service
    target,           \* the target table of the service
    cfg,              \* the configuration of the runs
    tz,               \* the host's zone offset
    clock,            \* index into ClockInstants: what time.Now() reads
    run,              \* the number of the current run
    pc,               \* where the current run stands
    listOf,           \* the table ListRecords is reading: "source", "target"
    records,          \* ListRecords: the accumulator
    pageToken,        \* ListRecords: the token for the next request
    listLog,          \* history: the exchanges of the current ListRecords call
    req,              \* sendWithRetry: the request
    maxRetries,       \* sendWithRetry: its second argument
    tries,            \* sendWithRetry: the loop counter i
    backoff,          \* sendWithRetry: the next sleep, in seconds
    drained,          \* the request's body buffer has been read
    sendRes,          \* sendWithRetry: what it returned
    attemptLog,       \* history: the outcomes of the attempts of the call
    sleepLog,         \* history: the sleeps of the call
    sourceRecords,    \* RunPipeline: what Extract returned
    transformedData,  \* RunPipeline: what Transform returned
    window,           \* getTargetKeys: startTime and endTime
    targetKeys,       \* Load: the existing keys
    dataToWrite,      \* Load: the rows left after dedup
    batchIdx,         \* Load: the loop variable i
    written,          \* Load: the written counter
    batchRows,        \* Load: the rows of the batch in flight, before preparation
    createCalls,      \* history: the batches handed to BatchCreateRecords this run
    result,           \* what run() learns from RunPipeline
    targetAtStart,    \* history: the target when the run started
    priorRows,        \* history: the rows earlier runs committed
    priorOk,          \* history: the run before this one returned no error
    peer              \* a second run of the program, overlapping the first

cfgVars  == <<source, cfg, tz, peer>>

listVars == <<listOf, records, pageToken, listLog>>

sendVars == <<req, maxRetries, tries, backoff, drained, sendRes, attemptLog, sleepLog>>

loadVars == <<window, targetKeys, dataToWrite, batchIdx, written, batchRows, createCalls>>

runVars  == <<run, sourceRecords, transformedData, result, targetAtStart, priorRows,
             priorOk>>

vars == <<cfgVars, listVars, sendVars, loadVars, runVars, target, clock, pc>>

Now == ClockInstants[clock]

NoRequest == [method |-> "", table |-> "", hasToken |-> FALSE, token |-> NoToken,
              body |-> <<>>]

NoResult == [done |-> FALSE, err |-> "", stage |-> "", total |-> 0, transformed |-> 0]

NoWindow == [startTime |-> 0, endTime |-> 0]

\* no second run
NoPeer == [pc |-> "off", targetKeys |-> {}, dataToWrite |-> <<>>, batchIdx |-> 0]

NoSend == [ok |-> FALSE, resp |-> Exchange("", 0, "", FALSE, FALSE), error |-> NoError]

\* the values every run starts from
RunReset ==
    /\ pc = "start"
    /\ listOf = "" /\ records = <<>> /\ pageToken = NoToken /\ listLog = <<>>
    /\ req = NoRequest /\ maxRetries = 0 /\ tries = 0 /\ backoff = 0
    /\ drained = FALSE /\ sendRes = NoSend /\ attemptLog = <<>> /\ sleepLog = <<>>
    /\ sourceRecords = <<>> /\ transformedData = <<>>
    /\ window = NoWindow /\ targetKeys = {} /\ dataToWrite = <<>>
    /\ batchIdx = 0 /\ written = 0 /\ batchRows = <<>> /\ createCalls = <<>>
    /\ result = NoResult

Init ==
    /\ source \in SourceTables
    /\ target \in TargetTables
    /\ cfg \in Configs
    /\ tz \in HostZones
    /\ clock = 1
    /\ run = 1
    /\ targetAtStart = target
    /\ priorRows = {}
    /\ priorOk = FALSE
    /\ peer = NoPeer
    /\ RunReset

(***************************************************************************)
(* The operations                                                          *)
(***************************************************************************)
TableOf(name) == IF name = "source" THEN source ELSE target

\* a list request that never carries the token
ListRequestNoToken(table, token) ==
    [method |-> "GET", table |-> table, hasToken |-> FALSE, token |-> NoToken,
     body |-> <<>>]

\* ListRecords lines 51-64: the request carries page_token only when the
\* token is not empty
ListRequest(table, token) ==
    [method |-> "GET", table |-> table, hasToken |-> token # NoToken,
     token |-> IF token # NoToken THEN token ELSE NoToken, body |-> <<>>]

\* BatchCreateRecords lines 153-170
CreateRequest(rows) ==
    [method |-> "POST", table |-> "target", hasToken |-> FALSE, token |-> NoToken,
     body |-> rows]

\* preprocessRecordFields: the check field becomes plain text
preprocessRecordFields(r) ==
    [r EXCEPT !.fields =
        [k \in DOMAIN r.fields |->
            IF k = "check" THEN Str(extractTextFromField(r.fields[k]))
            ELSE r.fields[k]]]

Preprocessed(items) == [i \in 1..Len(items) |-> preprocessRecordFields(items[i])]

\* Extract lines 26-38
Extract(recs, mode, days, now, zone) ==
    IF mode = "incremental"
    THEN FilterRecordsByDate(recs, now - days * SecondsPerDay, now, zone)
    ELSE recs

\* getTargetKeys lines 106-111: the window, read from the clock
TargetWindow(mode, days, now) ==
    IF mode = "incremental"
    THEN [startTime |-> now - days * SecondsPerDay, endTime |-> now]
    ELSE NoWindow

\* getTargetKeys lines 119-130: the target records the keys are built from
TargetRecords(recs, mode, w, zone) ==
    IF mode = "incremental"
    THEN FilterRecordsByDate(recs, w.startTime, w.endTime, zone)
    ELSE recs

\* a call of sendWithRetry: lines 218-219
SendCall(request, max) ==
    /\ req' = request
    /\ maxRetries' = max
    /\ tries' = 0
    /\ backoff' = InitialBackoff
    /\ drained' = FALSE
    /\ sendRes' = NoSend
    /\ attemptLog' = <<>>
    /\ sleepLog' = <<>>
    /\ pc' = "attempt"

\* the frame of sendWithRetry is gone once its caller has read the result
SendDone ==
    /\ req' = NoRequest
    /\ maxRetries' = 0
    /\ tries' = 0
    /\ backoff' = 0
    /\ drained' = FALSE
    /\ sendRes' = NoSend
    /\ attemptLog' = <<>>
    /\ sleepLog' = <<>>

\* a call of ListRecords: lines 46-48
ListCall(table) ==
    /\ listOf' = table
    /\ records' = <<>>
    /\ pageToken' = NoToken
    /\ listLog' = <<>>
    /\ pc' = "list"

\* RunPipeline returns an error of the given stage: pipeline.go lines 26-28, 38-40
Fail(stage, err) ==
    /\ result' = [done |-> TRUE, err |-> err, stage |-> stage, total |-> 0,
                  transformed |-> 0]
    /\ pc' = "done"

\* RunPipeline returns its result: pipeline.go lines 42-50
Finish ==
    /\ result' = [done |-> TRUE, err |-> "", stage |-> "",
                  total |-> Len(sourceRecords), transformed |-> Len(transformedData)]
    /\ pc' = "done"

\* run() calls RunPipeline, which calls Extract, which calls ListRecords
RunStart ==
    /\ pc = "start"
    /\ ListCall("source")
    /\ UNCHANGED <<cfgVars, sendVars, loadVars, runVars, target, clock>>

\* ListRecords, one turn of the loop up to the call of sendWithRetry
ListRecordsRequest ==
    /\ pc = "list"
    /\ SendCall(ListRequest(listOf, pageToken), ListMaxRetries)
    /\ listLog' = Append(listLog, [hasToken |-> ListRequest(listOf, pageToken).hasToken,
                                   sent |-> ListRequest(listOf, pageToken).token,
                                   state |-> "sent", items |-> <<>>, next |-> NoToken])
    /\ UNCHANGED <<cfgVars, listOf, records, pageToken, loadVars, runVars, target, clock>>

\* sendWithRetry, one attempt: lines 220-234, the exchange chosen by the network
SendAttempt ==
    /\ pc = "attempt"
    /\ tries < maxRetries
    /\ \E o \in Outcomes(req, drained) :
        /\ attemptLog' = Append(attemptLog, o)
        /\ drained' = (drained \/ o.reads)
        /\ target' = IF o.commit THEN Stored(target, req.body) ELSE target
        /\ IF IsSuccess(o)
           THEN /\ sendRes' = [ok |-> TRUE, resp |-> o, error |-> NoError]
                /\ pc' = "returned"
           ELSE IF IsLastAttempt(tries, maxRetries)
           THEN /\ sendRes' = [ok |-> FALSE, resp |-> NoSend.resp, error |-> RetryError(o)]
                /\ pc' = "returned"
           ELSE /\ sendRes' = sendRes
                /\ pc' = "sleep"
    /\ UNCHANGED <<cfgVars, listVars, req, maxRetries, tries, backoff, sleepLog,
                   loadVars, runVars, clock>>

\* sendWithRetry, the sleep between two attempts: lines 236-237 and i++
SendSleep ==
    /\ pc = "sleep"
    /\ sleepLog' = Append(sleepLog, backoff)
    /\ backoff' = NextBackoff(backoff)
    /\ tries' = tries + 1
    /\ pc' = "attempt"
    /\ UNCHANGED <<cfgVars, listVars, req, maxRetries, drained, sendRes, attemptLog,
                   loadVars, runVars, target, clock>>

\* how sendWithRetry and the decoding of the body ended, as the callers
\* tell it apart: "send", "badjson", "code", or the body kind of a good answer
AnswerKind(res) == IF ~res.ok THEN "send" ELSE res.resp.body

\* a page test that does not look at the code of the body
PageFailedIgnoringCode(res) == ~res.ok \/ res.resp.body = "badjson"

\* ListRecords lines 67-84: the request failed, the body does not decode, or
\* its code is not 0
PageFailed(res) == ~res.ok \/ res.resp.body = "badjson" \/ res.resp.body = "code"

\* ListRecords after sendWithRetry returned: lines 67-97
ListRecordsReturn ==
    /\ pc = "returned"
    /\ req.method = "GET"
    /\ IF PageFailed(sendRes)
       THEN /\ Fail(IF listOf = "source" THEN "extract" ELSE "load", AnswerKind(sendRes))
            /\ records' = <<>>
            /\ listLog' = [listLog EXCEPT ![Len(listLog)].state = AnswerKind(sendRes)]
            /\ UNCHANGED pageToken
       ELSE LET page == ServerPage(TableOf(listOf),
                                   IF req.hasToken THEN req.token ELSE NoToken)
            IN  /\ records' = records \o Preprocessed(page.items)
                /\ pageToken' = page.token
                /\ listLog' = [listLog EXCEPT ![Len(listLog)] =
                                 [@ EXCEPT !.state = AnswerKind(sendRes),
                                           !.items = page.items,
                                           !.next = page.token]]
                /\ pc' = IF page.token # NoToken THEN "list"
                         ELSE IF listOf = "source" THEN "extracted" ELSE "keys"
                /\ UNCHANGED result
    /\ SendDone
    /\ UNCHANGED <<cfgVars, listOf, loadVars, run, sourceRecords,
                   transformedData, targetAtStart, priorRows, priorOk, target, clock>>

\* Extract after ListRecords returned, then Transform: pipeline.go lines 25-35
ExtractReturn ==
    /\ pc = "extracted"
    /\ sourceRecords' = Extract(records, cfg.Mode, cfg.Days, Now, tz)
    /\ transformedData' = Transform(sourceRecords', tz)
    /\ pc' = "load"
    /\ UNCHANGED <<cfgVars, listVars, sendVars, loadVars, run, result, targetAtStart,
                   priorRows, priorOk, target, clock>>

\* Load calls getTargetKeys, which reads the clock and calls ListRecords
LoadStart ==
    /\ pc = "load"
    /\ window' = TargetWindow(cfg.Mode, cfg.Days, Now)
    /\ ListCall("target")
    /\ UNCHANGED <<cfgVars, sendVars, targetKeys, dataToWrite, batchIdx, written,
                   batchRows, createCalls, runVars, target, clock>>

\* a write test that does not look at the dry-run flag
WritesNothingIgnoringDryRun(dryRun, rows) == Len(rows) = 0

\* Load lines 36 and 56: nothing is written in a dry run or without rows
WritesNothing(dryRun, rows) == dryRun \/ Len(rows) = 0

\* getTargetKeys after ListRecords returned, then Load lines 21-56 and 94-98
GetTargetKeysReturn ==
    /\ pc = "keys"
    /\ targetKeys' = TargetKeys(TargetRecords(records, cfg.Mode, window, tz), tz)
    /\ dataToWrite' = SelectNew(transformedData, targetKeys')
    /\ batchIdx' = 0
    /\ written' = 0
    /\ IF WritesNothing(cfg.DryRun, dataToWrite')
       THEN Finish
       ELSE pc' = "batch" /\ UNCHANGED result
    /\ UNCHANGED <<cfgVars, listVars, sendVars, window, batchRows, createCalls, run,
                   sourceRecords, transformedData, targetAtStart, priorRows, priorOk,
                   target, clock>>

\* Load, one turn of the write loop up to the call of sendWithRetry in
\* BatchCreateRecords: lines 61-85
LoadBatch ==
    /\ pc = "batch"
    /\ IF batchIdx >= Len(dataToWrite)
       THEN /\ Finish
            /\ UNCHANGED <<sendVars, batchIdx, batchRows, createCalls>>
       ELSE LET batch == SubSeq(dataToWrite, batchIdx + 1,
                                BatchEnd(batchIdx, cfg.BatchSize, Len(dataToWrite)))
                preparedBatch == PreparedBatch(batch)
            IN  /\ batchIdx' = batchIdx + cfg.BatchSize
                /\ IF Len(preparedBatch) = 0
                   THEN /\ pc' = "batch"
                        /\ UNCHANGED <<sendVars, batchRows, createCalls, result>>
                   ELSE IF ~Marshals(preparedBatch)
                   THEN /\ Fail("load", "marshal")
                        /\ UNCHANGED <<sendVars, batchRows, createCalls>>
                   ELSE /\ SendCall(CreateRequest(preparedBatch), CreateMaxRetries)
                        /\ batchRows' = Convertible(batch)
                        /\ createCalls' = Append(createCalls,
                                                 [rows |-> Convertible(batch),
                                                  state |-> "sent"])
                        /\ UNCHANGED result
    /\ UNCHANGED <<cfgVars, listVars, window, targetKeys, dataToWrite, written, run,
                   sourceRecords, transformedData, targetAtStart, priorRows, priorOk,
                   target, clock>>

\* a create test that does not look at the code of the body
CreateFailedIgnoringCode(res) == ~res.ok \/ res.resp.body = "badjson"

\* BatchCreateRecords lines 173-190: the request failed, the body does not
\* decode, or its code is not 0
CreateFailed(res) == ~res.ok \/ res.resp.body = "badjson" \/ res.resp.body = "code"

\* BatchCreateRecords after sendWithRetry returned, then Load lines 85-90
BatchCreateReturn ==
    /\ pc = "returned"
    /\ req.method = "POST"
    /\ createCalls' = [createCalls EXCEPT ![Len(createCalls)].state = AnswerKind(sendRes)]
    /\ IF CreateFailed(sendRes)
       THEN /\ Fail("load", AnswerKind(sendRes))
            /\ UNCHANGED written
       ELSE /\ written' = written + Len(req.body)
            /\ pc' = "batch"
            /\ UNCHANGED result
    /\ SendDone
    /\ UNCHANGED <<cfgVars, listVars, window, targetKeys, dataToWrite,
                   batchIdx, batchRows, run, sourceRecords,
                   transformedData, targetAtStart, priorRows, priorOk, target, clock>>

\* the fixed text of Details when RunPipeline returned no result
NoDetails == [counts |-> FALSE, total |-> 0, transformed |-> 0]

\* run() builds the notification result from what RunPipeline returned, before
\* it looks at the send flag: Success from the error, Details from the result,
\* which RunPipeline returns only together with a nil error
NotificationResult ==
    [Success |-> result.err = "",
     Details |-> IF result.err = ""
                 THEN [counts |-> TRUE, total |-> result.total,
                       transformed |-> result.transformed]
                 ELSE NoDetails]

\* the rows the service stored during the current run
CommittedThisRun ==
    {target[i].fields : i \in (Len(targetAtStart) + 1)..Len(target)}

\* the program is run again, against the same tables
RunAgain ==
    /\ pc = "done"
    /\ run < MaxRuns
    /\ run' = run + 1
    /\ priorRows' = priorRows \cup CommittedThisRun
    /\ priorOk' = (result.err = "")
    /\ targetAtStart' = target
    /\ pc' = "start"
    /\ listOf' = "" /\ records' = <<>> /\ pageToken' = NoToken /\ listLog' = <<>>
    /\ req' = NoRequest /\ maxRetries' = 0 /\ tries' = 0 /\ backoff' = 0
    /\ drained' = FALSE /\ sendRes' = NoSend /\ attemptLog' = <<>> /\ sleepLog' = <<>>
    /\ sourceRecords' = <<>> /\ transformedData' = <<>>
    /\ window' = NoWindow /\ targetKeys' = {} /\ dataToWrite' = <<>>
    /\ batchIdx' = 0 /\ written' = 0 /\ batchRows' = <<>> /\ createCalls' = <<>>
    /\ result' = NoResult
    /\ UNCHANGED <<cfgVars, target, clock>>

\* time passes; only the incremental mode reads the clock
Tick ==
    /\ cfg.Mode = "incremental"
    /\ clock < Len(ClockInstants)
    /\ clock' = clock + 1
    /\ UNCHANGED <<cfgVars, listVars, sendVars, loadVars, runVars, target, pc>>

Next ==
    \/ RunStart
    \/ ListRecordsRequest
    \/ SendAttempt
    \/ SendSleep
    \/ ListRecordsReturn
    \/ ExtractReturn
    \/ LoadStart
    \/ GetTargetKeysReturn
    \/ LoadBatch
    \/ BatchCreateReturn
    \/ RunAgain
    \/ Tick

Spec == Init /\ [][Next]_vars

(***************************************************************************)
(* sendWithRetry on its own, for every maxRetries from 1 to MaxAttempts    *)
(***************************************************************************)
(***************************************************************************)
(* Two runs at once: while the run above goes on, a second process runs     *)
(* the same program against the same tables. Its calls all succeed; it is   *)
(* followed from one call of the service to the next.                       *)
(***************************************************************************)
\* the tables of the overlapping runs
OverlapTables == {<<RecA>>, <<RecG>>, <<RecA, RecB>>}

\* the second run's Extract, Transform, getTargetKeys and dedup loop: it
\* lists the source, then lists the target as it stands now, and keeps the
\* rows whose key that listing does not hold (Load lines 16-33, 36 and 56)
PeerKeys ==
    /\ peer.pc = "start"
    /\ LET rows == Transform(Extract(Preprocessed(source), cfg.Mode, cfg.Days, Now, tz), tz)
           keys == TargetKeys(TargetRecords(Preprocessed(target), cfg.Mode,
                                            TargetWindow(cfg.Mode, cfg.Days, Now), tz), tz)
           new  == SelectNew(rows, keys)
       IN  peer' = [pc |-> IF WritesNothing(cfg.DryRun, new) THEN "done" ELSE "batch",
                    targetKeys |-> keys, dataToWrite |-> new, batchIdx |-> 0]
    /\ UNCHANGED <<source, cfg, tz, listVars, sendVars, loadVars, runVars, target,
                   clock, pc>>

\* the second run's write loop, one turn with a create call that the service
\* stores and answers with code 0 (Load lines 61-91)
PeerBatch ==
    /\ peer.pc = "batch"
    /\ IF peer.batchIdx >= Len(peer.dataToWrite)
       THEN /\ peer' = [peer EXCEPT !.pc = "done"]
            /\ UNCHANGED target
       ELSE LET batch == SubSeq(peer.dataToWrite, peer.batchIdx + 1,
                                BatchEnd(peer.batchIdx, cfg.BatchSize,
                                         Len(peer.dataToWrite)))
                preparedBatch == PreparedBatch(batch)
            IN  IF Len(preparedBatch) = 0
                THEN /\ peer' = [peer EXCEPT !.batchIdx = @ + cfg.BatchSize]
                     /\ UNCHANGED target
                ELSE IF ~Marshals(preparedBatch)
                THEN /\ peer' = [peer EXCEPT !.pc = "failed"]
                     /\ UNCHANGED target
                ELSE /\ peer' = [peer EXCEPT !.batchIdx = @ + cfg.BatchSize]
                     /\ target' = Stored(target, preparedBatch)
    /\ UNCHANGED <<source, cfg, tz, listVars, sendVars, loadVars, runVars, clock, pc>>

InitOverlap ==
    /\ source \in OverlapTables
    /\ target \in TargetTables
    /\ cfg \in Configs
    /\ tz \in HostZones
    /\ clock = 1
    /\ run = 1
    /\ targetAtStart = target
    /\ priorRows = {}
    /\ priorOk = FALSE
    /\ peer = [NoPeer EXCEPT !.pc = "start"]
    /\ RunReset

NextOverlap ==
    \/ RunStart
    \/ ListRecordsRequest
    \/ SendAttempt
    \/ SendSleep
    \/ ListRecordsReturn
    \/ ExtractReturn
    \/ LoadStart
    \/ GetTargetKeysReturn
    \/ LoadBatch
    \/ BatchCreateReturn
    \/ PeerKeys
    \/ PeerBatch

SpecOverlap == InitOverlap /\ [][NextOverlap]_vars

SampleRequests ==
    {ListRequest("source", NoToken),
     ListRequest("source", TokenOf(PageLimit)),
     CreateRequest(PreparedBatch(Transform(<<RecA>>, ShanghaiOffset)))}

InitRetry ==
    /\ source = RecordPool
    /\ target = <<>>
    /\ cfg \in {c \in Configs : c.Mode = "full" /\ c.BatchSize = 1 /\ ~c.DryRun}
    /\ tz = ShanghaiOffset
    /\ clock = 1
    /\ run = 1
    /\ targetAtStart = target
    /\ priorRows = {}
    /\ priorOk = FALSE
    /\ peer = NoPeer
    /\ listOf = "" /\ records = <<>> /\ pageToken = NoToken /\ listLog = <<>>
    /\ req \in SampleRequests
    /\ maxRetries \in 1..MaxAttempts
    /\ tries = 0
    /\ backoff = InitialBackoff
    /\ drained = FALSE /\ sendRes = NoSend /\ attemptLog = <<>> /\ sleepLog = <<>>
    /\ sourceRecords = <<>> /\ transformedData = <<>>
    /\ window = NoWindow /\ targetKeys = {} /\ dataToWrite = <<>>
    /\ batchIdx = 0 /\ written = 0 /\ batchRows = <<>> /\ createCalls = <<>>
    /\ result = NoResult
    /\ pc = "attempt"

NextRetry == SendAttempt \/ SendSleep

SpecRetry == InitRetry /\ [][NextRetry]_vars

(***************************************************************************)
(* Properties of Load: dedup, batches, dry run, re-runs                    *)
(***************************************************************************)
\* the key the documentation gives a row: "date|name|project"
KeyText(row) ==
    row["date"].v \o <<"|">> \o row["name"].v \o <<"|">> \o row["project"].v

\* the last exchange of the current ListRecords call
LastListed == listLog[Len(listLog)]

\* Load has listed the whole target and selected the rows to write
TargetListed ==
    /\ listOf = "target"
    /\ pc \in {"batch", "attempt", "sleep", "returned", "done"}
    /\ listLog # <<>>
    /\ LastListed.state = "page"
    /\ LastListed.next = NoToken

\* the rows handed to the create calls of the run, in call order
SubmittedRows == Concat([j \in 1..Len(createCalls) |-> createCalls[j].rows])

\* C1: once the existing keys are built from the target, the rows to write
\* are exactly the transformed rows whose key date|name|project is not among
\* the existing keys, in their original order; no row whose key is present is
\* handed to a create call, and a row that differs from an existing key only
\* in the project name is kept.
C1_SelectNewExact ==
    TargetListed =>
        /\ dataToWrite = SelectSeq(transformedData, LAMBDA row : KeyText(row) \notin targetKeys)
        /\ \A i \in 1..Len(SubmittedRows) : KeyText(SubmittedRows[i]) \notin targetKeys
        /\ \A i \in 1..Len(SubmittedRows) :
              \E j \in 1..Len(dataToWrite) : dataToWrite[j] = SubmittedRows[i]

\* a run in which one row is dropped as present, a row of the same date and
\* name with another project is kept, and rows were submitted
C1_Witness ==
    /\ TargetListed
    /\ createCalls # <<>>
    /\ \E i, j \in 1..Len(transformedData) :
          /\ KeyText(transformedData[i]) \in targetKeys
          /\ KeyText(transformedData[j]) \notin targetKeys
          /\ transformedData[i]["date"] = transformedData[j]["date"]
          /\ transformedData[i]["name"] = transformedData[j]["name"]
          /\ ToLower(transformedData[i]["project"].v) = ToLower(transformedData[j]["project"].v)
          /\ \E k \in 1..Len(dataToWrite) : dataToWrite[k] = transformedData[j]

\* the row as the service stores it
StoredForm(row) == prepareRecordForWriting(row).rec

\* C2: a later run over the same source submits no row that an earlier run
\* committed to the target; and a run that reads the whole source (mode
\* full) directly after a run without error issues no create call.
C2_RerunWritesOnlyUncommitted ==
    /\ \A i \in 1..Len(SubmittedRows) : StoredForm(SubmittedRows[i]) \notin priorRows
    /\ (run > 1 /\ priorOk /\ cfg.Mode = "full") => createCalls = <<>>

\* C3: when the create call of batch k fails, no batch after k is submitted,
\* the rows of the batches before k are in the target, none of the target's
\* earlier records is lost, and RunPipeline reports the failure of the load
\* stage.
C3_FailedBatchAborts ==
    \A k \in 1..Len(createCalls) :
        createCalls[k].state \in {"send", "badjson", "code"} =>
            /\ k = Len(createCalls)
            /\ pc = "done"
            /\ result.done /\ result.err # "" /\ result.stage = "load"
            /\ \A j \in 1..(k - 1) :
                  /\ createCalls[j].state = "created"
                  /\ \A i \in 1..Len(createCalls[j].rows) :
                        \E t \in (Len(targetAtStart) + 1)..Len(target) :
                            target[t].fields = StoredForm(createCalls[j].rows[i])
            /\ Len(target) >= Len(targetAtStart)
            /\ SubSeq(target, 1, Len(targetAtStart)) = targetAtStart
            /\ written = Len(Concat([j \in 1..(k - 1) |-> createCalls[j].rows]))

\* the second of at least three batches fails after all attempts
C3_Witness ==
    /\ Len(createCalls) = 2
    /\ createCalls[1].state = "created"
    /\ createCalls[2].state = "send"
    /\ Len(dataToWrite) = 5
    /\ cfg.BatchSize = 2
    /\ result.err = "send"

\* every row to write has a date that converts
AllConvert(rows) == \A i \in 1..Len(rows) : prepareRecordForWriting(rows[i]).ok

\* the number of batches of at most b rows that n rows fill
Ceil(n, b) == (n + b - 1) \div b

\* C4: without dry run, with n rows to write whose dates all convert and a
\* batch size b, no call carries more than b rows; the calls made so far
\* carry a prefix of the rows to write; and a run without error has made
\* exactly ceil(n/b) calls, each but the last of b rows, whose rows in call
\* order are the rows to write.
C4_BatchPartition ==
    (TargetListed /\ ~cfg.DryRun /\ AllConvert(dataToWrite)) =>
        LET n == Len(dataToWrite)
            b == cfg.BatchSize
        IN  /\ \A j \in 1..Len(createCalls) : Len(createCalls[j].rows) <= b
            /\ Len(SubmittedRows) <= n
            /\ SubmittedRows = SubSeq(dataToWrite, 1, Len(SubmittedRows))
            /\ (result.done /\ result.err = "") =>
                  /\ Len(createCalls) = Ceil(n, b)
                  /\ \A j \in 1..(Len(createCalls) - 1) : Len(createCalls[j].rows) = b
                  /\ SubmittedRows = dataToWrite

\* five rows in batches of two: calls of 2, 2 and 1 rows
C4_Witness ==
    /\ TargetListed /\ ~cfg.DryRun /\ AllConvert(dataToWrite)
    /\ result.done /\ result.err = ""
    /\ cfg.BatchSize = 2
    /\ Len(dataToWrite) = 5
    /\ [j \in 1..Len(createCalls) |-> Len(createCalls[j].rows)] = <<2, 2, 1>>

\* C5: in a dry run no create call is issued, whatever the number of rows
\* left after dedup: no create request exists, the target is as the run
\* found it, and the written counter is zero.
C5_DryRunWritesNothing ==
    cfg.DryRun =>
        /\ createCalls = <<>>
        /\ req.method # "POST"
        /\ target = targetAtStart
        /\ written = 0

\* a finished dry run that had rows left after dedup
C5_Witness ==
    /\ cfg.DryRun
    /\ TargetListed
    /\ result.done /\ result.err = ""
    /\ Len(dataToWrite) >= 4

(***************************************************************************)
(* Properties of sendWithRetry                                             *)
(***************************************************************************)
\* an attempt without transport error and with status 200
Succeeded(o) == o.err = "" /\ o.status = 200

LastAttempt == attemptLog[Len(attemptLog)]

Sending == pc \in {"attempt", "sleep", "returned"}

\* C6: sendWithRetry makes at most maxRetries attempts; every attempt but
\* the last one made has failed; an attempt without transport error and with
\* status 200 ends the call at once, its response is what the call returns,
\* and the sleeps number one less than the attempts, so none follows it; the
\* call returns a response only for such an attempt.
C6_StopsAtFirstSuccess ==
    /\ Len(attemptLog) <= maxRetries
    /\ \A j \in 1..(Len(attemptLog) - 1) : ~Succeeded(attemptLog[j])
    /\ (attemptLog # <<>> /\ Succeeded(LastAttempt)) =>
          /\ pc = "returned"
          /\ sendRes.ok
          /\ sendRes.resp = LastAttempt
          /\ Len(sleepLog) = Len(attemptLog) - 1
    /\ sendRes.ok => (attemptLog # <<>> /\ Succeeded(LastAttempt))

\* the second of at least three allowed attempts is the first success
C6_Witness ==
    /\ pc = "returned"
    /\ sendRes.ok
    /\ maxRetries >= 3
    /\ Len(attemptLog) = 2
    /\ sleepLog = <<1>>

\* sendWithRetry returns an error exactly when it made maxRetries attempts
\* and all failed, and the error tells the last attempt's transport error
\* when it had one and else its status
RetryExhaustedExact ==
    pc = "returned" =>
        /\ ~sendRes.ok <=>
              (Len(attemptLog) = maxRetries /\ \A j \in 1..Len(attemptLog) : ~Succeeded(attemptLog[j]))
        /\ ~sendRes.ok =>
              IF LastAttempt.err # ""
              THEN sendRes.error = [kind |-> "transport", err |-> LastAttempt.err, status |-> 0]
              ELSE /\ sendRes.error = [kind |-> "status", err |-> "", status |-> LastAttempt.status]
                   /\ LastAttempt.status # 200

\* C7: sendWithRetry fails if and only if all maxRetries attempts fail; the
\* error carries the transport error of the last attempt when it had one and
\* otherwise the last attempt's status, which is not 200; and every call the
\* pipeline makes, from ListRecords and from BatchCreateRecords, allows 3
\* attempts.
C7_FailsIffAllFail ==
    /\ RetryExhaustedExact
    /\ Sending => (maxRetries = 3 /\ req.method \in {"GET", "POST"})

\* a create call that failed with a status on its first attempt and with
\* transport errors after, and reports the last transport error
C7_Witness ==
    /\ pc = "returned"
    /\ req.method = "POST"
    /\ ~sendRes.ok
    /\ Len(attemptLog) = 3
    /\ attemptLog[1].err = "" /\ attemptLog[1].status = 500
    /\ attemptLog[3].err = "bodylength"
    /\ sendRes.error.err = "bodylength"

\* C8: the k-th sleep of a call lasts 2^(k-1) seconds; a sleep happens only
\* between a failed attempt and the next attempt, so a returned call has
\* slept one time less than it attempted; a call with maxRetries = 3 whose
\* attempts all fail has slept 1 then 2 seconds.
C8_BackoffDoubles ==
    /\ \A k \in 1..Len(sleepLog) : sleepLog[k] = 2 ^ (k - 1)
    /\ pc = "attempt" => Len(sleepLog) = Len(attemptLog)
    /\ pc = "sleep" => (Len(sleepLog) = Len(attemptLog) - 1 /\ Len(attemptLog) < maxRetries)
    /\ pc = "returned" => Len(sleepLog) = Len(attemptLog) - 1
    /\ (pc = "returned" /\ ~sendRes.ok /\ maxRetries = 3) => sleepLog = <<1, 2>>

\* three failed attempts of three
C8_Witness ==
    /\ pc = "returned"
    /\ ~sendRes.ok
    /\ maxRetries = 3
    /\ Len(attemptLog) = 3
    /\ sleepLog = <<1, 2>>

(***************************************************************************)
(* Properties of ListRecords                                               *)
(***************************************************************************)
ListFailures == {"send", "badjson", "code"}

\* the items of the pages of the current ListRecords call, in page order
ListedItems == Concat([k \in 1..Len(listLog) |-> listLog[k].items])

\* C9: the first list request carries no page_token; each later request
\* carries the token of the response before it, which was a page with a
\* token; after a page with an empty token no further request is made, and
\* ListRecords returns the items of all pages in page order and in-page
\* order, which are the records of the table in table order.
C9_FollowsCursor ==
    /\ listLog # <<>> => (~listLog[1].hasToken /\ listLog[1].sent = NoToken)
    /\ \A k \in 2..Len(listLog) :
          /\ listLog[k].hasToken
          /\ listLog[k].sent = listLog[k - 1].next
          /\ listLog[k - 1].state = "page"
          /\ listLog[k - 1].next # NoToken
    /\ (listLog # <<>> /\ LastListed.state = "page" /\ LastListed.next = NoToken) =>
          /\ pc # "list"
          /\ ~(Sending /\ req.method = "GET")
          /\ pc \in {"extracted", "keys"} =>
                /\ records = Preprocessed(ListedItems)
                /\ [i \in 1..Len(records) |-> records[i].id]
                      = [i \in 1..Len(TableOf(listOf)) |-> TableOf(listOf)[i].id]

\* three pages of two items have been returned as six records
C9_Witness ==
    /\ pc = "keys"
    /\ Len(listLog) = 3
    /\ \A k \in 1..3 : Len(listLog[k].items) = 2
    /\ Len(records) = 6

\* C10: when a page request of ListRecords fails (all attempts failed, the
\* body does not decode, or its code is not 0), it is the last request of
\* the call, ListRecords returns no records, the run ends with the error of
\* the calling stage (extract for the source, load for the target keys), and
\* no create call has been issued: the target is as the run found it.
C10_PageFailureFailsStage ==
    \A k \in 1..Len(listLog) :
        listLog[k].state \in ListFailures =>
            /\ k = Len(listLog)
            /\ pc = "done"
            /\ records = <<>>
            /\ result.done
            /\ result.err = listLog[k].state
            /\ result.stage = (IF listOf = "source" THEN "extract" ELSE "load")
            /\ createCalls = <<>>
            /\ written = 0
            /\ target = targetAtStart

\* the second page of the source failed after a first page of two items
C10_Witness ==
    /\ listOf = "source"
    /\ Len(listLog) = 2
    /\ Len(listLog[1].items) = 2
    /\ listLog[2].state = "send"
    /\ records = <<>>
    /\ result.stage = "extract"

(***************************************************************************)
(* Extract's filter and Transform on their own, over records that vary in  *)
(* date, check field and project slots                                     *)
(***************************************************************************)
\* the longest table of records that vary together
MaxProbe == 2

\* a field the record does not have
Absent == [t |-> "absent", v |-> <<>>]

\* a source record with the given date, check and three (name, hour) slots
MkRec(id, date, check, s1, s2, s3) ==
    LET val(k) == IF k = DateField THEN date
                  ELSE IF k = "check" THEN check
                  ELSE IF k = "name" THEN Str(<<"A">>)
                  ELSE IF k = "pname1" THEN s1[1]
                  ELSE IF k = "phour1" THEN s1[2]
                  ELSE IF k = "pname2" THEN s2[1]
                  ELSE IF k = "phour2" THEN s2[2]
                  ELSE IF k = "pname3" THEN s3[1]
                  ELSE s3[2]
        keys == {DateField, "check", "name", "pname1", "phour1", "pname2", "phour2",
                 "pname3", "phour3"}
    IN  [id |-> id, fields |-> [k \in {x \in keys : val(x).t # "absent"} |-> val(k)]]

D20240101 == <<"2", "0", "2", "4", "-", "0", "1", "-", "0", "1">>

D20240104 == <<"2", "0", "2", "4", "-", "0", "1", "-", "0", "4">>

\* date values: texts, and numbers around the limits of convertTimestampToTime
DateValues ==
    { Absent, Nil, Str(<<>>), Str(<<"b", "a", "d">>),
      Str(D20240101), Str(D20240102), Str(D20240103), Str(D20240104),
      Num(<<0, 0>>),
      Num(<<946684, 799>>),          \* 1999-12-31T23:59:59Z in seconds
      Num(<<946684, 800>>),          \* 2000-01-01T00:00:00Z in seconds
      Num(<<946684800, 0>>),         \* the same instant in milliseconds
      Num(<<978278, 400>>),          \* 2001-01-01T00:00:00+08:00 in seconds
      Num(<<978278400, 0>>),         \* the same instant in milliseconds
      Num(<<999999999, 999>>),       \* one below the threshold
      Num(<<1000000000, 0>>),        \* the threshold
      Num(<<1700000, 0>>),           \* 2023-11-14T22:13:20Z in seconds
      Num(<<1700000000, 0>>),        \* the same instant in milliseconds
      Num(<<1704124, 800>>),         \* 2024-01-02T00:00:00+08:00 in seconds
      Num(<<1704124800, 0>>),        \* the same instant in milliseconds
      Num(<<1704196, 800>>),         \* 2024-01-02T20:00:00+08:00 in seconds
      Num(<<2145916, 800>>),         \* 2038-01-01T00:00:00Z in seconds
      Num(<<2145916800, 0>>),        \* the same instant in milliseconds
      Num(<<2145916800, 1>>),        \* one millisecond later
      Num(<<2147483, 647>>),         \* 2038-01-19T03:14:07Z in seconds
      Num(<<2147483647, 0>>),        \* the same instant in milliseconds
      Num(<<2147483, 648>>),         \* one second later
      Num(<<3000000, 0>>) }          \* 2065-01-24T05:20:00Z in seconds

\* check values: absent, nil, texts with and without the marks, an object
CheckValues ==
    { Absent, Nil, Str(<<>>), Str(<<"o", "k">>),
      Str(DuplicateMark),
      Str(<<"biao", "ji", "wei">> \o DuplicateMark),
      Str(<<"biao", "ji", "wei">> \o EmptyDataMark \o <<"!">>),
      Str(EmptyDataMark \o DuplicateMark),
      Str(DuplicateMark \o EmptyDataMark),
      Str(<<"chong", "fu">>),
      Obj(<< <<"kong">>, <<"shu", "ju">> >>) }

Alpha == <<"A", "l", "p", "h", "a">>

Beta == <<"B", "e", "t", "a">>

\* (name, hour) slots
SlotValues ==
    { <<Str(Alpha), Str(<<"3">>)>>,
      <<Str(<<>>), Str(<<>>)>>,
      <<Str(Beta), Str(<<"0">>)>>,
      <<Str(Beta), Str(<<"1", ".", "5">>)>>,
      <<Str(Beta), Str(<<"-", "2">>)>>,
      <<Str(NoneText), Str(<<"1">>)>>,
      <<Str(Beta), Str(NoneText)>>,
      <<Str(Beta), Str(<<"a", "b", "c">>)>>,
      <<Str(Beta), Str(<<"N", "a", "N">>)>>,
      <<Str(Beta), Num(<<0, 2>>)>>,
      <<Absent, Absent>> }

SlotA == <<Str(Alpha), Str(<<"3">>)>>

SlotNone == <<Str(<<>>), Str(<<>>)>>

SlotZero == <<Str(Beta), Str(<<"0">>)>>

\* records that differ in the date only
DateProbes == {MkRec(<<"x">>, d, Absent, SlotA, SlotNone, SlotZero) : d \in DateValues}

\* records that differ in the check field, for three dates and two slot sets
CheckProbes ==
    {MkRec(<<"x">>, d, c, s, SlotNone, SlotA) :
        d \in {Str(D20240102), Num(<<1704124800, 0>>), Str(<<"b", "a", "d">>)},
        c \in CheckValues,
        s \in {SlotA, SlotZero}}

\* records that differ in the three slots
SlotProbes ==
    {MkRec(<<"x">>, Str(D20240102), Absent, s1, s2, s3) :
        s1 \in SlotValues, s2 \in SlotValues, s3 \in SlotValues}

\* records told apart by their dates, for tables of several records
OrderPool ==
    { MkRec(<<"p">>, Str(D20240101), Absent, SlotA, SlotNone, <<Str(Beta), Str(<<"1", ".", "5">>)>>),
      MkRec(<<"q">>, Str(D20240102), Str(DuplicateMark), SlotA, SlotA, SlotA),
      MkRec(<<"r">>, Num(<<1704124800, 0>>), Absent, SlotZero, SlotA, SlotNone),
      MkRec(<<"s">>, Str(D20240103), Nil, <<Str(Beta), Str(<<"-", "2">>)>>, SlotA, SlotA) }

RECURSIVE SeqsUpTo(_, _)
\* the sequences over S of length 1..n
SeqsUpTo(S, n) ==
    IF n = 0 THEN {}
    ELSE {<<x>> : x \in S}
         \cup {Append(q, x) : q \in SeqsUpTo(S, n - 1), x \in S}

ProbeTables ==
    {<<r>> : r \in DateProbes \cup CheckProbes \cup SlotProbes}
    \cup SeqsUpTo(OrderPool, MaxProbe)

\* the state in which ListRecords has returned the source in one page
InitTransform ==
    /\ source \in {t \in ProbeTables : Len(t) <= PageLimit}
    /\ target = <<>>
    /\ cfg \in {c \in Configs : c.BatchSize = 1 /\ ~c.DryRun}
    /\ tz \in HostZones
    /\ clock \in 1..Len(ClockInstants)
    /\ run = 1
    /\ targetAtStart = target
    /\ priorRows = {}
    /\ priorOk = FALSE
    /\ peer = NoPeer
    /\ listOf = "source"
    /\ records = Preprocessed(source)
    /\ pageToken = NoToken
    /\ listLog = <<[hasToken |-> FALSE, sent |-> NoToken, state |-> "page",
                    items |-> source, next |-> NoToken]>>
    /\ req = NoRequest /\ maxRetries = 0 /\ tries = 0 /\ backoff = 0
    /\ drained = FALSE /\ sendRes = NoSend /\ attemptLog = <<>> /\ sleepLog = <<>>
    /\ sourceRecords = <<>> /\ transformedData = <<>>
    /\ window = NoWindow /\ targetKeys = {} /\ dataToWrite = <<>>
    /\ batchIdx = 0 /\ written = 0 /\ batchRows = <<>> /\ createCalls = <<>>
    /\ result = NoResult
    /\ pc = "extracted"

NextTransform == ExtractReturn

SpecTransform == InitTransform /\ [][NextTransform]_vars

(***************************************************************************)
(* Properties of the date functions                                        *)
(***************************************************************************)
\* Extract and Transform have run in the current state
Transformed == pc = "load"

\* the day number of the host's calendar date at the instant t
LocalDay(t) == DayOfSeconds(NumOf(t), tz)

\* the record's normalized date is a calendar date d with
\* date(now - days) <= d < date(now)
InCalendarWindow(r) ==
    LET g == GetDateFieldAsString(r.fields, DateField, tz)
        p == ParseDay(g.s)
    IN  /\ g.ok /\ p.ok
        /\ LocalDay(Now - cfg.Days * SecondsPerDay) <= p.day
        /\ p.day < LocalDay(Now)

\* C11: in incremental mode Extract keeps exactly the records whose
\* normalized date d satisfies start <= d < end as calendar dates, start the
\* date of now - days and end the date of now, whatever the time of day.
C11_WindowByCalendarDate ==
    (Transformed /\ cfg.Mode = "incremental") =>
        sourceRecords = SelectSeq(records, InCalendarWindow)

\* the records whose date is a number
NumericDated == {i \in 1..Len(records) :
                    Has(records[i].fields, DateField) /\ records[i].fields[DateField].t = "num"}

RawDate(i) == records[i].fields[DateField].v

\* the text GetDateFieldAsString gives for a number
DateOfNumber(n) == GetDateFieldAsString([date |-> Num(n)], DateField, tz)

\* the instant a number denotes, in seconds: a value of at least
\* 1000000000000 counts milliseconds, a smaller one seconds
InstantOf(n) == IF NumGE(n, <<1000000000, 0>>) THEN NumOf(n[1]) ELSE n

\* C12: GetDateFieldAsString fails for a number whose instant is before
\* 2000-01-01T00:00:00Z (946684800) or after 2038-01-19T03:14:07Z
\* (2147483647), and succeeds for every instant from the one to the other.
C12_RangeOnInstant ==
    Transformed =>
        \A i \in NumericDated :
            DateOfNumber(RawDate(i)).ok <=>
                (/\ NumGE(InstantOf(RawDate(i)), NumOf(946684800))
                 /\ ~NumGT(InstantOf(RawDate(i)), NumOf(2147483647)))

\* C13: a number of at least 1000000000000 is read as milliseconds and a
\* smaller one as seconds; and for every instant s from minValidTimestampSec
\* to maxValidTimestampSec the numbers s and 1000 s give the same date.
C13_SecondsAndMillisecondsAgree ==
    Transformed =>
        \A i \in NumericDated :
            /\ DateOfNumber(RawDate(i)).ok =>
                  DateOfNumber(RawDate(i)).s = FormatDay(DayOfSeconds(InstantOf(RawDate(i)), tz))
            /\ (/\ NumGE(RawDate(i), NumOf(minValidTimestampSec))
                /\ ~NumGT(RawDate(i), NumOf(maxValidTimestampSec))) =>
                  LET sec == 1000 * RawDate(i)[1] + RawDate(i)[2]
                  IN  /\ DateOfNumber(RawDate(i)).ok
                      /\ DateOfNumber(MsOfSec(sec)).ok
                      /\ DateOfNumber(MsOfSec(sec)).s = DateOfNumber(RawDate(i)).s

\* C14: on a host in the zone UTC+8, for every number t that
\* GetDateFieldAsString accepts, the date text d it gives converts with
\* ParseDateToTimestampMs, and GetDateFieldAsString gives d again for the
\* milliseconds.
C14_DateRoundTrip ==
    (Transformed /\ tz = ShanghaiOffset) =>
        \A i \in NumericDated :
            DateOfNumber(RawDate(i)).ok =>
                LET d == DateOfNumber(RawDate(i)).s
                    p == ParseDateToTimestampMs(d)
                IN  /\ p.ok
                    /\ DateOfNumber(p.ms).ok
                    /\ DateOfNumber(p.ms).s = d

(***************************************************************************)
(* Properties of Transform                                                 *)
(***************************************************************************)
\* the text of the record's check field, empty when there is none or nil
CheckText(r) ==
    IF ~Has(r.fields, "check") THEN <<>>
    ELSE IF r.fields["check"].t = "str" THEN r.fields["check"].v
    ELSE IF r.fields["check"].t = "obj" THEN Concat(r.fields["check"].v)
    ELSE <<>>

\* the check text is not empty and, in lower case, contains the mark
Marked(r, mark) == CheckText(r) # <<>> /\ Contains(ToLower(CheckText(r)), mark)

MarkedAny(r) == Marked(r, EmptyDataMark) \/ Marked(r, DuplicateMark)

\* C15: a record whose check text is not empty and contains the empty-data
\* or the duplicate mark gives no row, whatever its date and slots, and
\* counts in exactly one skip counter: the empty counter when it has the
\* empty-data mark, the duplicate counter when it has the duplicate mark
\* only; a record without check field, or with a check text without marks, is
\* not counted there; the rows of Transform are those of the unmarked
\* records.
C15_SkipRule ==
    Transformed =>
        /\ \A i \in 1..Len(sourceRecords) :
              LET r   == sourceRecords[i]
                  out == TransformRecord(r, tz)
              IN  /\ MarkedAny(r) => out.rows = <<>>
                  /\ Marked(r, EmptyDataMark) <=> out.skip = "empty"
                  /\ (Marked(r, DuplicateMark) /\ ~Marked(r, EmptyDataMark))
                        <=> out.skip = "duplicate"
        /\ SkipCount(sourceRecords, tz, "empty")
              = Cardinality({i \in 1..Len(sourceRecords) : Marked(sourceRecords[i], EmptyDataMark)})
        /\ SkipCount(sourceRecords, tz, "duplicate")
              = Cardinality({i \in 1..Len(sourceRecords) :
                                /\ Marked(sourceRecords[i], DuplicateMark)
                                /\ ~Marked(sourceRecords[i], EmptyDataMark)})
        /\ transformedData = Transform(SelectSeq(sourceRecords, LAMBDA r : ~MarkedAny(r)), tz)

\* a record with a good date and a good slot, marked as duplicate inside a
\* longer text, has given no row
C15_Witness ==
    /\ Transformed
    /\ Len(sourceRecords) = 1
    /\ Marked(sourceRecords[1], DuplicateMark)
    /\ CheckText(sourceRecords[1]) # DuplicateMark
    /\ GetDateFieldAsString(sourceRecords[1].fields, DateField, tz).s = D20240102
    /\ GetStringField(sourceRecords[1].fields, "pname1") = Alpha
    /\ GetStringField(sourceRecords[1].fields, "phour1") = <<"3">>
    /\ transformedData = <<>>
    /\ SkipCount(sourceRecords, tz, "duplicate") = 1

\* the record passes the skip rule and has a date text
Passes(r) ==
    /\ ~MarkedAny(r)
    /\ GetDateFieldAsString(r.fields, DateField, tz).ok
    /\ GetDateFieldAsString(r.fields, DateField, tz).s # <<>>

SlotName(r, i) == GetStringField(r.fields, <<"pname1", "pname2", "pname3">>[i])

SlotHour(r, i) == GetStringField(r.fields, <<"phour1", "phour2", "phour3">>[i])

\* name and hour text are not empty and not "None", and the hour text
\* parses to a number that is not zero
SlotCounts(r, i) ==
    /\ SlotName(r, i) # <<>> /\ SlotHour(r, i) # <<>>
    /\ SlotName(r, i) # <<"N", "o", "n", "e">> /\ SlotHour(r, i) # <<"N", "o", "n", "e">>
    /\ ParseFloat(SlotHour(r, i)).ok /\ ~ParseFloat(SlotHour(r, i)).zero

\* the row of slot i: the base fields of the record, the project, the hours
SlotRow(r, i) ==
    [k \in {"status", DateField, "dept", "name", "worklog", "notes", "project", "hours"} |->
        IF k = "project" THEN Str(SlotName(r, i))
        ELSE IF k = "hours" THEN ParseFloat(SlotHour(r, i)).v
        ELSE IF k = DateField THEN Str(GetDateFieldAsString(r.fields, DateField, tz).s)
        ELSE Str(GetStringField(r.fields, k))]

\* the rows of one record: one for each slot that counts, in slot order
FanOut(r) ==
    IF ~Passes(r) THEN <<>>
    ELSE Concat([i \in 1..3 |-> IF SlotCounts(r, i) THEN <<SlotRow(r, i)>> ELSE <<>>])

\* C16: the rows of Transform are, record by record in source order, one row
\* for each slot 1, 2, 3 of a passing record whose name and hour text are
\* not empty, not "None" and whose hour text parses to a number that is not
\* zero, in slot order, each with the base fields of its record; no other
\* slot gives a row.
C16_FanOut ==
    Transformed =>
        transformedData = Concat([i \in 1..Len(sourceRecords) |-> FanOut(sourceRecords[i])])

\* slots (Alpha, 3), ("", ""), (Beta, 0) have given the one row (Alpha, 3.0)
C16_Witness ==
    /\ Transformed
    /\ Len(sourceRecords) = 1
    /\ [i \in 1..3 |-> <<SlotName(sourceRecords[1], i), SlotHour(sourceRecords[1], i)>>]
          = << <<Alpha, <<"3">> >>, << <<>>, <<>> >>, <<Beta, <<"0">> >> >>
    /\ Len(transformedData) = 1
    /\ transformedData[1]["project"] = Str(Alpha)
    /\ transformedData[1]["hours"] = Flt(1, 30)
    /\ transformedData[1]["date"] = Str(D20240102)

\* the row has hours above zero and a project that is neither empty nor "None"
GoodRow(row) ==
    /\ row["hours"].t = "flt"
    /\ row["hours"].v[1] = 1
    /\ row["hours"].v[2] > 0
    /\ row["project"].v # <<>>
    /\ row["project"].v # <<"N", "o", "n", "e">>

\* C17: every row Transform returns, and every row handed to a create call,
\* has hours > 0 and a project that is not empty and not "None".
C17_HoursPositive ==
    /\ \A i \in 1..Len(transformedData) : GoodRow(transformedData[i])
    /\ \A i \in 1..Len(SubmittedRows) : GoodRow(SubmittedRows[i])

(***************************************************************************)
(* Properties of a run: the two windows, the create calls, the result      *)
(***************************************************************************)
\* getTargetKeys has fixed its window in this run
WindowFixed == cfg.Mode = "incremental" /\ window # NoWindow

\* C18: in incremental mode the window getTargetKeys filters the target
\* records with is the window Extract filtered the source records with, so
\* every source record kept, and every candidate row made from it, has its
\* date inside the window of the key set; in full mode Extract keeps every
\* record and the key set is built from the whole target listing.
C18_SameWindow ==
    /\ WindowFixed =>
          /\ \A i \in 1..Len(sourceRecords) :
                InDateWindow(sourceRecords[i], window.startTime, window.endTime, tz)
          /\ \A i \in 1..Len(transformedData) :
                InDateWindow([fields |-> transformedData[i]],
                             window.startTime, window.endTime, tz)
    /\ (cfg.Mode = "full" /\ pc = "load") => sourceRecords = records
    /\ (cfg.Mode = "full" /\ pc = "batch") => targetKeys = TargetKeys(records, tz)

\* the date of the row converts to epoch milliseconds
DateConverts(row) ==
    row[DateField].t = "str" /\ ParseDateToTimestampMs(row[DateField].v).ok

\* batch k of the rows to write, counting from 0
BatchOf(k) ==
    SubSeq(dataToWrite, k * cfg.BatchSize + 1,
           Min((k + 1) * cfg.BatchSize, Len(dataToWrite)))

\* the batches the write loop has gone through
BatchesDone == {k \in 0..Len(dataToWrite) : (k + 1) * cfg.BatchSize <= batchIdx}

\* C19: no create call carries a row whose date does not convert, and none
\* carries an empty record list; between two batches of a write the rows
\* submitted so far are exactly the rows of the batches gone through whose
\* date converts, in order, and there is one create call for each of these
\* batches that has such a row and none for the others.
C19_UnconvertibleLeftOut ==
    /\ \A j \in 1..Len(createCalls) :
          /\ createCalls[j].rows # <<>>
          /\ \A i \in 1..Len(createCalls[j].rows) : DateConverts(createCalls[j].rows[i])
    /\ req.method = "POST" =>
          /\ req.body # <<>>
          /\ \A i \in 1..Len(req.body) : req.body[i][DateField].t = "num"
    /\ pc = "batch" =>
          /\ SubmittedRows
                = SelectSeq(SubSeq(dataToWrite, 1, Min(batchIdx, Len(dataToWrite))),
                            DateConverts)
          /\ Len(createCalls)
                = Cardinality({k \in BatchesDone :
                                  \E i \in 1..Len(BatchOf(k)) : DateConverts(BatchOf(k)[i])})

\* a batch of two rows, the first with a date that does not convert: the
\* create call carried the second row alone, and the service stored it
C19_Witness ==
    /\ pc = "batch"
    /\ cfg.BatchSize = 2
    /\ Len(dataToWrite) >= 2
    /\ ~DateConverts(dataToWrite[1])
    /\ DateConverts(dataToWrite[2])
    /\ Len(createCalls) = 1
    /\ createCalls[1].rows = <<dataToWrite[2]>>
    /\ createCalls[1].state = "created"

\* C20: after every run, ended well or aborted in extract or in load, the
\* notification result has Success true exactly when the pipeline returned
\* no error, and its details give the numbers of extracted and of
\* transformed records of that run.
C20_ResultReflectsRun ==
    result.done =>
        /\ NotificationResult.Success <=> result.err = ""
        /\ NotificationResult.Details.counts
        /\ NotificationResult.Details.total = Len(sourceRecords)
        /\ NotificationResult.Details.transformed = Len(transformedData)

(***************************************************************************)
(* Properties of the writes: keys written twice, retried create calls      *)
(***************************************************************************)
\* C22: within one run no two rows handed to create calls have the same
\* key of date, name and project.
C22_NoKeyTwiceInRun ==
    \A i, j \in 1..Len(SubmittedRows) :
        i # j => RowKey(SubmittedRows[i]) # RowKey(SubmittedRows[j])

\* the attempts of the current call that the service committed
CommittedAttempts == {i \in 1..Len(attemptLog) : attemptLog[i].commit}

C24_BodyWholeOnRetry ==
    req.method = "POST" =>
        /\ pc \in {"attempt", "sleep"} => ~drained
        /\ \A i \in 1..Len(attemptLog) : attemptLog[i].err # "bodylength"

(***************************************************************************)
(* Properties of two runs at once                                          *)
(***************************************************************************)
\* both runs have gone through their write loops without an error
BothWrote == pc = "done" /\ result.err = "" /\ peer.pc = "done" /\ ~cfg.DryRun

\* the number of target records that hold the row
Copies(row) == Cardinality({i \in 1..Len(target) : target[i].fields = StoredForm(row)})

\* C21: nothing between a run's dedup test and its write looks at the target
\* again: when two runs at once have both kept a row for writing, each after
\* a target listing without its key, and both have written, the target holds
\* the row at least twice.
C21_OverlappingRunsDoubleWrite ==
    BothWrote =>
        \A i \in 1..Len(dataToWrite), j \in 1..Len(peer.dataToWrite) :
            (dataToWrite[i] = peer.dataToWrite[j] /\ DateConverts(dataToWrite[i]))
                => Copies(dataToWrite[i]) >= 2

\* both runs listed the empty target before either wrote, so both key sets
\* are empty; both kept the row of RecA and both committed it: the target
\* holds two records with the same fields, hence the same key
C21_Witness ==
    /\ BothWrote
    /\ source = <<RecA>>
    /\ tz = ShanghaiOffset
    /\ targetAtStart = <<>>
    /\ targetKeys = {} /\ peer.targetKeys = {}
    /\ Len(dataToWrite) = 1 /\ peer.dataToWrite = dataToWrite
    /\ Len(target) = 2
    /\ target[1].fields = target[2].fields
    /\ TargetKeyOf(preprocessRecordFields(target[1]), tz) = RowKey(dataToWrite[1])
    /\ TargetKeyOf(preprocessRecordFields(target[2]), tz) = RowKey(dataToWrite[1])

====
